---- MODULE Spec2Model ----
(***************************************************************************)
(* Model of scripts/common.py, scripts/failover.py and scripts/sync_dns.py *)
(* of multi-dns-cdn-failover.                                              *)
(*                                                                         *)
(* Strings are sequences of one-character strings, so that endswith,       *)
(* rstrip, slicing and concatenation are computed as Python computes them. *)
(* Provider A is Cloudflare (CloudflareClient), provider B is deSEC        *)
(* (DeSecClient).  Every HTTP call of a provider client may succeed or     *)
(* answer with a non-success status; a health check may answer with any    *)
(* status or fail in transport.                                            *)
(***************************************************************************)
EXTENDS Integers, Sequences, FiniteSets, TLC

VARIABLES
    in_domain,      \* fqdn/subname evaluation: the domain argument
    in_name,        \* fqdn/subname evaluation: the name argument
    fpc,            \* fqdn/subname evaluation: which results are computed
    out1,           \* failover.fqdn(domain, name)
    out2,           \* failover.fqdn(domain, out1)
    rec1,           \* DnsRecordConfig(domain, name).fqdn
    rec2,           \* DnsRecordConfig(domain, rec1).fqdn
    sub,            \* DnsRecordConfig(domain, name).subname, or the error raised
    cfg,            \* failover configuration (load_failover_config)
    zone_cfg,       \* zone configuration (load_zone_config): domain and records
    cf,             \* provider A: the DNS records of the zone
    desec,          \* provider B: the RRsets of the domain
    pc,             \* position of the running script
    zone_resp,      \* provider A's answer to the zone lookup of this run
    zone_id,        \* local zone_id
    health,         \* what the two check URLs answer during this run
    primary_ok,     \* local primary_ok ("unset" until checked)
    secondary_ok,   \* local secondary_ok ("unset" until checked)
    desired_target, \* local desired_target
    current,        \* local current
    idx,            \* sync_zone: position of the record being processed
    reqs,           \* write requests issued to the providers by this run
    reads,          \* record reads issued to provider A by this run
    err,            \* exception that ended the run, "none" if none
    exit_code,      \* return value of main, -1 while running
    runs,           \* number of runs started
    prev            \* outcome of the previous run

fvars == <<in_domain, in_name, fpc, out1, out2, rec1, rec2, sub>>
pvars == <<cfg, zone_cfg, cf, desec, pc, zone_resp, zone_id, health, primary_ok,
           secondary_ok, desired_target, current, idx, reqs, reads, err,
           exit_code, runs, prev>>
vars == <<fvars, pvars>>

(***************************************************************************)
(* Bounds                                                                  *)
(***************************************************************************)
MaxNameLen == 4
MaxDomainLen == 2
MaxRuns == 2
MaxRecords == 3

(***************************************************************************)
(* Strings                                                                 *)
(***************************************************************************)
Dot == <<".">>
None == <<"None">>

RECURSIVE SeqsUpTo(_, _)
SeqsUpTo(S, n) ==
    IF n = 0 THEN {<<>>}
    ELSE LET shorter == SeqsUpTo(S, n - 1)
         IN  shorter \cup {Append(s, c) : s \in {t \in shorter : Len(t) = n - 1}, c \in S}

\* str.endswith
endswith(s, suffix) ==
    /\ Len(s) >= Len(suffix)
    /\ SubSeq(s, Len(s) - Len(suffix) + 1, Len(s)) = suffix

\* str.rstrip("."): every trailing dot is removed
RECURSIVE rstrip_dots(_)
rstrip_dots(s) ==
    IF Len(s) > 0 /\ s[Len(s)] = "." THEN rstrip_dots(SubSeq(s, 1, Len(s) - 1))
    ELSE s

(***************************************************************************)
(* FQDN / subname derivation                                               *)
(***************************************************************************)
\* fqdn without the "already under the domain" case
fqdn_always_append(domain, name) ==
    IF endswith(name, Dot) THEN rstrip_dots(name)
    ELSE IF name = domain THEN domain
    ELSE name \o Dot \o domain

\* failover.py: fqdn
fqdn(domain, name) ==
    IF endswith(name, Dot) THEN rstrip_dots(name)
    ELSE IF name = domain THEN domain
    ELSE IF endswith(name, Dot \o domain) THEN name
    ELSE name \o Dot \o domain

\* common.py: DnsRecordConfig.fqdn
DnsRecordConfig_fqdn(domain, name) ==
    IF endswith(name, Dot) THEN rstrip_dots(name)
    ELSE IF name = domain THEN domain
    ELSE IF endswith(name, Dot \o domain) THEN name
    ELSE name \o Dot \o domain

\* subname that returns the name as it is instead of raising
subname_no_raise(domain, name) ==
    LET f == DnsRecordConfig_fqdn(domain, name)
        suffix == Dot \o domain
    IN  IF f = domain THEN [err |-> "none", value |-> <<"@">>]
        ELSE IF endswith(f, suffix)
             THEN [err |-> "none", value |-> SubSeq(f, 1, Len(f) - Len(suffix))]
             ELSE [err |-> "none", value |-> f]

\* common.py: DnsRecordConfig.subname; err is the exception raised
subname(domain, name) ==
    LET f == DnsRecordConfig_fqdn(domain, name)
        suffix == Dot \o domain
    IN  IF f = domain THEN [err |-> "none", value |-> <<"@">>]
        ELSE IF endswith(f, suffix)
             THEN [err |-> "none", value |-> SubSeq(f, 1, Len(f) - Len(suffix))]
             ELSE [err |-> "ConfigError", value |-> None]

(***************************************************************************)
(* Evaluation of the pure functions on bounded inputs                      *)
(***************************************************************************)
NameChars == {"e", "w", "."}
Names == SeqsUpTo(NameChars, MaxNameLen)
Domains == SeqsUpTo(NameChars, MaxDomainLen)

NoHealth ==
    [primary |-> [kind |-> "unset", status |-> 0],
     secondary |-> [kind |-> "unset", status |-> 0]]

\* No script has run yet: the locals of run_failover and sync_zone are unset
NoRunYet ==
    /\ pc = "idle"
    /\ zone_resp = [status |-> 0, zones |-> <<>>]
    /\ zone_id = "none"
    /\ health = NoHealth
    /\ primary_ok = "unset"
    /\ secondary_ok = "unset"
    /\ desired_target = None
    /\ current = None
    /\ idx = 0
    /\ reqs = <<>>
    /\ reads = 0
    /\ err = "none"
    /\ exit_code = -1
    /\ runs = 0
    /\ prev = [done |-> FALSE, err |-> "none", health |-> NoHealth, desired |-> None]

\* No script is configured
ProgramIdle ==
    /\ cfg = [domain |-> <<"e">>, router_record |-> <<"w">>,
              primary_target |-> <<"p">>, secondary_target |-> <<"s">>,
              expected_status |-> 200]
    /\ zone_cfg = [domain |-> <<"e">>, records |-> <<>>]
    /\ cf = {}
    /\ desec = {}
    /\ NoRunYet

FqdnInit ==
    /\ in_domain \in Domains
    /\ in_name \in Names
    /\ fpc = "args"
    /\ out1 = None
    /\ out2 = None
    /\ rec1 = None
    /\ rec2 = None
    /\ sub = [err |-> "unset", value |-> None]
    /\ ProgramIdle

ApplyFqdn ==
    /\ fpc = "args"
    /\ out1' = fqdn(in_domain, in_name)
    /\ rec1' = DnsRecordConfig_fqdn(in_domain, in_name)
    /\ fpc' = "once"
    /\ UNCHANGED <<in_domain, in_name, out2, rec2, sub, pvars>>

ApplyFqdnAgain ==
    /\ fpc = "once"
    /\ out2' = fqdn(in_domain, out1)
    /\ rec2' = DnsRecordConfig_fqdn(in_domain, rec1)
    /\ fpc' = "twice"
    /\ UNCHANGED <<in_domain, in_name, out1, rec1, sub, pvars>>

ApplySubname ==
    /\ fpc = "args"
    /\ sub' = subname(in_domain, in_name)
    /\ fpc' = "subname"
    /\ UNCHANGED <<in_domain, in_name, out1, out2, rec1, rec2, pvars>>

FqdnNext == ApplyFqdn \/ ApplyFqdnAgain \/ ApplySubname

SpecFqdn == FqdnInit /\ [][FqdnNext]_vars

(***************************************************************************)
(* Provider clients                                                        *)
(***************************************************************************)
RouterTtl == 60
NoRecord == [name |-> None, type |-> "", content |-> None, ttl |-> 0]

\* Status codes a provider may answer with
ReadStatuses == {200, 500}
WriteStatuses == {200, 201, 500}
\* Answers of provider A to GET /zones?name=...: no zone, one zone, two zones
ZoneResponses ==
    {[status |-> 200, zones |-> z] : z \in {<<>>, <<"z1">>, <<"z1", "z2">>}}
    \cup {[status |-> 500, zones |-> <<>>]}

\* common.py: CloudflareClient.get_zone_id
get_zone_id(resp) ==
    IF resp.status # 200 THEN [err |-> "ProviderError", id |-> "none"]
    ELSE IF Len(resp.zones) = 0 THEN [err |-> "ProviderError", id |-> "none"]
    ELSE [err |-> "none", id |-> resp.zones[1]]

\* common.py: CloudflareClient.get_dns_record
get_dns_record(store, status, name, rtype) ==
    IF status # 200 THEN [err |-> "ProviderError", found |-> FALSE, rec |-> NoRecord]
    ELSE LET records == {r \in store : r.name = name /\ r.type = rtype}
         IN  IF records = {} THEN [err |-> "none", found |-> FALSE, rec |-> NoRecord]
             ELSE [err |-> "none", found |-> TRUE, rec |-> CHOOSE r \in records : TRUE]

\* A write request to provider A as it is issued
CfRequest(op, name, rtype, content, ttl, ok) ==
    [provider |-> "cf", op |-> op, name |-> name, type |-> rtype,
     content |-> content, records |-> <<>>, ttl |-> ttl, ok |-> ok]

\* A write request to provider B as it is issued
DesecRequest(sname, rtype, ttl, records, ok) ==
    [provider |-> "desec", op |-> "put", name |-> sname, type |-> rtype,
     content |-> None, records |-> records, ttl |-> ttl, ok |-> ok]

\* common.py: CloudflareClient.upsert_dns_record
upsert_dns_record(store, get_status, write_status, name, rtype, content, ttl) ==
    LET existing == get_dns_record(store, get_status, name, rtype)
        payload == [name |-> name, type |-> rtype, content |-> content, ttl |-> ttl]
        op == IF existing.found THEN "update" ELSE "create"
    IN  IF existing.err # "none"
        THEN [err |-> "ProviderError", store |-> store, reqs |-> <<>>]
        ELSE IF write_status \notin {200, 201}
        THEN [err |-> "ProviderError", store |-> store,
              reqs |-> <<CfRequest(op, name, rtype, content, ttl, FALSE)>>]
        ELSE [err |-> "none", store |-> (store \ {existing.rec}) \cup {payload},
              reqs |-> <<CfRequest(op, name, rtype, content, ttl, TRUE)>>]

\* upsert_rrset that does not look at the response status
upsert_rrset_unchecked(store, status, domain, sname, rtype, ttl, records) ==
    LET old == {r \in store : r.domain = domain /\ r.subname = sname /\ r.type = rtype}
        rrset == [domain |-> domain, subname |-> sname, type |-> rtype,
                  ttl |-> ttl, records |-> records]
    IN  [err |-> "none",
         store |-> IF status \in {200, 201} THEN (store \ old) \cup {rrset} ELSE store,
         reqs |-> <<DesecRequest(sname, rtype, ttl, records, status \in {200, 201})>>]

\* common.py: DeSecClient.upsert_rrset
upsert_rrset(store, status, domain, sname, rtype, ttl, records) ==
    LET old == {r \in store : r.domain = domain /\ r.subname = sname /\ r.type = rtype}
        rrset == [domain |-> domain, subname |-> sname, type |-> rtype,
                  ttl |-> ttl, records |-> records]
    IN  IF status \notin {200, 201}
        THEN [err |-> "ProviderError", store |-> store,
              reqs |-> <<DesecRequest(sname, rtype, ttl, records, FALSE)>>]
        ELSE [err |-> "none", store |-> (store \ old) \cup {rrset},
              reqs |-> <<DesecRequest(sname, rtype, ttl, records, TRUE)>>]

(***************************************************************************)
(* failover.py                                                             *)
(***************************************************************************)
\* What a check URL answers: a status code, or a transport failure
HealthResponses ==
    {[kind |-> "response", status |-> st] : st \in {200, 503}}
    \cup {[kind |-> "RequestError", status |-> 0]}

\* check_health that takes a transport failure for a healthy target
check_health_transport_ok(response, expected_status) ==
    IF response.kind = "RequestError" THEN TRUE
    ELSE response.status = expected_status

\* check_health that takes any answer for a healthy target
check_health_any_status(response, expected_status) ==
    response.kind # "RequestError"

\* failover.py: check_health
check_health(response, expected_status) ==
    IF response.kind = "RequestError" THEN FALSE
    ELSE response.status = expected_status

\* current_target_info that does not find the record
current_target_info_none(store, status, name) ==
    LET rec == get_dns_record(store, status, name, "CNAME")
    IN  [err |-> rec.err, value |-> None]

\* failover.py: current_target_info
current_target_info(store, status, name) ==
    LET rec == get_dns_record(store, status, name, "CNAME")
    IN  IF rec.err # "none" THEN [err |-> rec.err, value |-> None]
        ELSE IF ~rec.found THEN [err |-> "none", value |-> None]
        ELSE [err |-> "none", value |-> rec.rec.content]

\* the target handed to provider B as it is, without a trailing dot
desec_records_no_dot(new_target_fqdn) == <<new_target_fqdn>>

\* failover.py: set_router_target, the values of rec_cfg
desec_records(new_target_fqdn) ==
    <<IF ~endswith(new_target_fqdn, Dot) THEN new_target_fqdn \o Dot
      ELSE new_target_fqdn>>

\* failover.py: run_failover, the names derived from the configuration
router_fqdn == fqdn(cfg.domain, cfg.router_record)
primary_fqdn == fqdn(cfg.domain, cfg.primary_target)
secondary_fqdn == fqdn(cfg.domain, cfg.secondary_target)

B2S(b) == IF b THEN "True" ELSE "False"

FailoverConfigs ==
    [domain : {<<"e">>},
     router_record : {<<"w">>, <<"w", ".", "e">>, <<"w", ".", "e", ".">>, <<"o", ".">>},
     primary_target : {<<"p">>, <<"p", ".", "e", ".">>},
     secondary_target : {<<"s">>},
     expected_status : {200}]

\* The router record of both providers before the first run: absent, or
\* pointing to one of the targets
RouterStates(c) ==
    LET r == fqdn(c.domain, c.router_record)
        sn == subname(c.domain, r)
    IN  {[cf |-> {}, desec |-> {}]}
        \cup {[cf |-> {[name |-> r, type |-> "CNAME", content |-> t, ttl |-> RouterTtl]},
               desec |-> {[domain |-> c.domain, subname |-> sn.value, type |-> "CNAME",
                           ttl |-> RouterTtl, records |-> <<t \o Dot>>]}]
              : t \in {fqdn(c.domain, c.primary_target), fqdn(c.domain, c.secondary_target)}}

FqdnIdle ==
    /\ in_domain = <<"e">>
    /\ in_name = <<"w">>
    /\ fpc = "idle"
    /\ out1 = None
    /\ out2 = None
    /\ rec1 = None
    /\ rec2 = None
    /\ sub = [err |-> "unset", value |-> None]

FailoverInit ==
    /\ FqdnIdle
    /\ cfg \in FailoverConfigs
    /\ \E st \in RouterStates(cfg) : cf = st.cf /\ desec = st.desec
    /\ zone_cfg = [domain |-> <<"e">>, records |-> <<>>]
    /\ NoRunYet

\* main: a ConfigError or ProviderError ends the run with exit code 1
EndRun(e) ==
    /\ pc' = "done"
    /\ err' = e
    /\ exit_code' = IF e = "none" THEN 0 ELSE 1

\* main, run_failover up to the construction of the clients
StartFailover ==
    /\ pc \in {"idle", "done"}
    /\ runs < MaxRuns
    /\ runs' = runs + 1
    /\ prev' = IF pc = "done"
               THEN [done |-> TRUE, err |-> err, health |-> health,
                     desired |-> desired_target]
               ELSE prev
    /\ \E h \in [primary : HealthResponses, secondary : HealthResponses] : health' = h
    /\ zone_resp' = [status |-> 0, zones |-> <<>>]
    /\ zone_id' = "none"
    /\ primary_ok' = "unset"
    /\ secondary_ok' = "unset"
    /\ desired_target' = None
    /\ current' = None
    /\ reqs' = <<>>
    /\ reads' = 0
    /\ \E tokens \in BOOLEAN :
          IF tokens
          THEN pc' = "get_zone_id" /\ err' = "none" /\ exit_code' = -1
          ELSE EndRun("ConfigError")
    /\ UNCHANGED <<fvars, cfg, zone_cfg, cf, desec, idx>>

\* run_failover: zone_id = cf.get_zone_id(domain)
FailoverGetZoneId ==
    /\ pc = "get_zone_id"
    /\ \E resp \in ZoneResponses :
          LET z == get_zone_id(resp)
          IN  /\ zone_resp' = resp
              /\ zone_id' = z.id
              /\ IF z.err # "none" THEN EndRun(z.err)
                 ELSE pc' = "check_primary" /\ UNCHANGED <<err, exit_code>>
    /\ UNCHANGED <<fvars, cfg, zone_cfg, cf, desec, health, primary_ok, secondary_ok,
                   desired_target, current, idx, reqs, reads, runs, prev>>

\* run_failover: the primary health check and its branch
CheckPrimary ==
    /\ pc = "check_primary"
    /\ LET ok == check_health(health.primary, cfg.expected_status)
       IN  /\ primary_ok' = B2S(ok)
           /\ IF ok
              THEN desired_target' = primary_fqdn /\ pc' = "current_target_info"
              ELSE desired_target' = desired_target /\ pc' = "check_secondary"
    /\ UNCHANGED <<fvars, cfg, zone_cfg, cf, desec, zone_resp, zone_id, health,
                   secondary_ok, current, idx, reqs, reads, err, exit_code, runs, prev>>

\* run_failover: the secondary health check and its branch
CheckSecondary ==
    /\ pc = "check_secondary"
    /\ LET ok == check_health(health.secondary, cfg.expected_status)
       IN  /\ secondary_ok' = B2S(ok)
           /\ IF ok
              THEN /\ desired_target' = secondary_fqdn
                   /\ pc' = "current_target_info"
                   /\ UNCHANGED <<err, exit_code>>
              ELSE /\ desired_target' = desired_target
                   /\ EndRun("none")
    /\ UNCHANGED <<fvars, cfg, zone_cfg, cf, desec, zone_resp, zone_id, health,
                   primary_ok, current, idx, reqs, reads, runs, prev>>

\* run_failover: read the current target and compare it with the desired one
CurrentTargetInfo ==
    /\ pc = "current_target_info"
    /\ reads' = reads + 1
    /\ \E st \in ReadStatuses :
          LET c == current_target_info(cf, st, router_fqdn)
          IN  IF c.err # "none"
              THEN current' = current /\ EndRun(c.err)
              ELSE /\ current' = c.value
                   /\ IF c.value = desired_target
                      THEN EndRun("none")
                      ELSE pc' = "set_router_target_cf" /\ UNCHANGED <<err, exit_code>>
    /\ UNCHANGED <<fvars, cfg, zone_cfg, cf, desec, zone_resp, zone_id, health,
                   primary_ok, secondary_ok, desired_target, idx, reqs, runs, prev>>

\* set_router_target: the upsert in provider A
SetRouterTargetCf ==
    /\ pc = "set_router_target_cf"
    /\ reads' = reads + 1
    /\ \E gs \in ReadStatuses, ws \in WriteStatuses :
          LET u == upsert_dns_record(cf, gs, ws, router_fqdn, "CNAME",
                                     desired_target, RouterTtl)
          IN  /\ cf' = u.store
              /\ reqs' = reqs \o u.reqs
              /\ IF u.err # "none" THEN EndRun(u.err)
                 ELSE pc' = "set_router_target_desec" /\ UNCHANGED <<err, exit_code>>
    /\ UNCHANGED <<fvars, cfg, zone_cfg, desec, zone_resp, zone_id, health, primary_ok,
                   secondary_ok, desired_target, current, idx, runs, prev>>

\* set_router_target: rec_cfg, its subname, and the upsert in provider B
SetRouterTargetDesec ==
    /\ pc = "set_router_target_desec"
    /\ LET sn == subname(cfg.domain, router_fqdn)
       IN  IF sn.err # "none"
           THEN EndRun(sn.err) /\ UNCHANGED <<desec, reqs>>
           ELSE \E ws \in WriteStatuses :
                   LET u == upsert_rrset(desec, ws, cfg.domain, sn.value, "CNAME",
                                         RouterTtl, desec_records(desired_target))
                   IN  /\ desec' = u.store
                       /\ reqs' = reqs \o u.reqs
                       /\ EndRun(u.err)
    /\ UNCHANGED <<fvars, cfg, zone_cfg, cf, zone_resp, zone_id, health, primary_ok,
                   secondary_ok, desired_target, current, idx, reads, runs, prev>>

FailoverNext ==
    \/ StartFailover
    \/ FailoverGetZoneId
    \/ CheckPrimary
    \/ CheckSecondary
    \/ CurrentTargetInfo
    \/ SetRouterTargetCf
    \/ SetRouterTargetDesec

SpecFailover == FailoverInit /\ [][FailoverNext]_vars

(***************************************************************************)
(* sync_dns.py                                                             *)
(***************************************************************************)
\* load_zone_config: every record carries the domain and exactly one value
SyncRecords ==
    [domain : {<<"e">>},
     name : {<<"w">>, <<"e">>, <<"w", ".", "e", ".">>, <<"o", ".">>},
     type : {"A"},
     ttl : {300},
     values : {<<<<"1">>>>}]

ZoneConfigs ==
    {[domain |-> <<"e">>, records |-> rs] : rs \in SeqsUpTo(SyncRecords, MaxRecords)}

\* Provider state before the sync: empty, or one of the records exists in
\* both providers with an older value
SyncStores ==
    {[cf |-> {}, desec |-> {}],
     [cf |-> {[name |-> <<"w", ".", "e">>, type |-> "A", content |-> <<"0">>, ttl |-> 300]},
      desec |-> {[domain |-> <<"e">>, subname |-> <<"w">>, type |-> "A", ttl |-> 300,
                  records |-> <<<<"0">>>>]}]}

SyncInit ==
    /\ FqdnIdle
    /\ cfg = [domain |-> <<"e">>, router_record |-> <<"w">>,
              primary_target |-> <<"p">>, secondary_target |-> <<"s">>,
              expected_status |-> 200]
    /\ zone_cfg \in ZoneConfigs
    /\ \E st \in SyncStores : cf = st.cf /\ desec = st.desec
    /\ NoRunYet

\* main, sync_zone up to the construction of the clients
StartSync ==
    /\ pc = "idle"
    /\ runs' = runs + 1
    /\ \E tokens \in BOOLEAN :
          IF tokens
          THEN pc' = "get_zone_id" /\ UNCHANGED <<err, exit_code>>
          ELSE EndRun("ConfigError")
    /\ UNCHANGED <<fvars, cfg, zone_cfg, cf, desec, zone_resp, zone_id, health,
                   primary_ok, secondary_ok, desired_target, current, idx, reqs,
                   reads, prev>>

\* sync_zone: zone_id = cf.get_zone_id(domain), then the loop is entered
SyncGetZoneId ==
    /\ pc = "get_zone_id"
    /\ \E resp \in ZoneResponses :
          LET z == get_zone_id(resp)
          IN  /\ zone_resp' = resp
              /\ zone_id' = z.id
              /\ IF z.err # "none" THEN EndRun(z.err) /\ idx' = idx
                 ELSE IF Len(zone_cfg.records) = 0 THEN EndRun("none") /\ idx' = idx
                 ELSE pc' = "sync_cf" /\ idx' = 1 /\ UNCHANGED <<err, exit_code>>
    /\ UNCHANGED <<fvars, cfg, zone_cfg, cf, desec, health, primary_ok, secondary_ok,
                   desired_target, current, reqs, reads, runs, prev>>

\* sync_zone, loop body: the upsert of the record in provider A
SyncCfUpsert ==
    /\ pc = "sync_cf"
    /\ reads' = reads + 1
    /\ LET rec == zone_cfg.records[idx]
       IN  \E gs \in ReadStatuses, ws \in WriteStatuses :
              LET u == upsert_dns_record(cf, gs, ws,
                                         DnsRecordConfig_fqdn(rec.domain, rec.name),
                                         rec.type, rec.values[1], rec.ttl)
              IN  /\ cf' = u.store
                  /\ reqs' = reqs \o u.reqs
                  /\ IF u.err # "none" THEN EndRun(u.err)
                     ELSE pc' = "sync_desec" /\ UNCHANGED <<err, exit_code>>
    /\ UNCHANGED <<fvars, cfg, zone_cfg, desec, zone_resp, zone_id, health, primary_ok,
                   secondary_ok, desired_target, current, idx, runs, prev>>

\* sync_zone, loop body: rec.subname and the upsert in provider B, then the
\* next record or the end of the loop
SyncDesecUpsert ==
    /\ pc = "sync_desec"
    /\ LET rec == zone_cfg.records[idx]
           sn == subname(rec.domain, rec.name)
       IN  IF sn.err # "none"
           THEN EndRun(sn.err) /\ UNCHANGED <<desec, reqs, idx>>
           ELSE \E ws \in WriteStatuses :
                   LET u == upsert_rrset(desec, ws, rec.domain, sn.value, rec.type,
                                         rec.ttl, rec.values)
                   IN  /\ desec' = u.store
                       /\ reqs' = reqs \o u.reqs
                       /\ IF u.err # "none" THEN EndRun(u.err) /\ idx' = idx
                          ELSE IF idx = Len(zone_cfg.records)
                          THEN EndRun("none") /\ idx' = idx
                          ELSE pc' = "sync_cf" /\ idx' = idx + 1
                               /\ UNCHANGED <<err, exit_code>>
    /\ UNCHANGED <<fvars, cfg, zone_cfg, cf, zone_resp, zone_id, health, primary_ok,
                   secondary_ok, desired_target, current, reads, runs, prev>>

SyncNext ==
    \/ StartSync
    \/ SyncGetZoneId
    \/ SyncCfUpsert
    \/ SyncDesecUpsert

SpecSync == SyncInit /\ [][SyncNext]_vars

(***************************************************************************)
(* Claims about fqdn and subname (checked under SpecFqdn)                  *)
(***************************************************************************)
\* The name as an absolute name: a trailing dot marks it absolute already.
Absolute(name) == IF endswith(name, Dot) THEN rstrip_dots(name) ELSE name
InDomain(domain, name) == name = domain \/ endswith(name, Dot \o domain)
\* A DNS name of non-empty labels, with (absolute) or without a trailing dot
WellFormedName(name) ==
    /\ Len(name) > 0
    /\ name[1] # "."
    /\ \A i \in 1..(Len(name) - 1) : ~(name[i] = "." /\ name[i + 1] = ".")
WellFormedDomain(domain) == WellFormedName(domain) /\ ~endswith(domain, Dot)

\* C5 (as stated): fqdn is idempotent for every domain and every name,
\* fqdn(domain, fqdn(domain, name)) = fqdn(domain, name), names with a
\* trailing dot included.
C5_FqdnIdempotent ==
    (fpc = "twice" /\ WellFormedDomain(in_domain) /\ WellFormedName(in_name))
    => out2 = out1 /\ rec2 = rec1

\* C5 (amended): fqdn is idempotent for every non-empty domain without a
\* trailing dot and every name that has no trailing dot, or whose
\* dot-stripped form is the domain or under the domain.
C5_FqdnIdempotentInDomain ==
    ( /\ fpc = "twice"
      /\ Len(in_domain) > 0
      /\ ~endswith(in_domain, Dot)
      /\ (~endswith(in_name, Dot) \/ InDomain(in_domain, rstrip_dots(in_name))) )
    => out2 = out1 /\ rec2 = rec1

\* fqdn was applied twice to a trailing-dot name under the domain
C5_Witness ==
    /\ fpc = "twice"
    /\ Len(in_domain) > 0
    /\ ~endswith(in_domain, Dot)
    /\ WellFormedName(in_name)
    /\ endswith(in_name, Dot)
    /\ endswith(rstrip_dots(in_name), Dot \o in_domain)
    /\ out1 = rstrip_dots(in_name)
    /\ out2 = out1

\* C6 (as stated): subname raises a configuration error for every name that
\* is neither the domain nor under the domain, returns "@" for the domain
\* and the name without the "."+domain suffix for a name under the domain.
\* Stated for the names of the claim's example: several labels, no trailing
\* dot, another zone's name ("other.org" against "example.com").
C6_SubnameRaisesOutsideDomain ==
    (fpc = "subname" /\ WellFormedDomain(in_domain) /\ WellFormedName(in_name)) =>
        /\ ( /\ ~InDomain(in_domain, in_name)
             /\ ~endswith(in_name, Dot)
             /\ \E i \in 1..Len(in_name) : in_name[i] = "." )
           => sub.err = "ConfigError"
        /\ in_name = in_domain => sub = [err |-> "none", value |-> <<"@">>]
        /\ (in_name # in_domain /\ endswith(in_name, Dot \o in_domain)) =>
               sub = [err |-> "none",
                      value |-> SubSeq(in_name, 1, Len(in_name) - Len(in_domain) - 1)]

\* C6 (amended): subname raises a configuration error exactly for the names
\* that end with a trailing dot and whose dot-stripped form is neither the
\* domain nor under the domain; a name without a trailing dot that is not
\* under the domain is taken as relative and returned as it is; "@" is
\* returned when the absolute name is the domain, and the absolute name
\* without the "."+domain suffix when it is under the domain.
C6_SubnameRaisesAbsoluteOutsideDomain ==
    fpc = "subname" =>
        LET abs == Absolute(in_name)
        IN  /\ sub.err = "ConfigError" <=>
                   (endswith(in_name, Dot) /\ ~InDomain(in_domain, abs))
            /\ sub.err \in {"none", "ConfigError"}
            /\ abs = in_domain => sub = [err |-> "none", value |-> <<"@">>]
            /\ (abs # in_domain /\ endswith(abs, Dot \o in_domain)) =>
                   sub = [err |-> "none",
                          value |-> SubSeq(abs, 1, Len(abs) - Len(in_domain) - 1)]
            /\ (~endswith(in_name, Dot) /\ ~InDomain(in_domain, in_name)) =>
                   sub = [err |-> "none", value |-> in_name]

\* subname raised for an absolute name outside a well-formed domain
C6_Witness ==
    /\ fpc = "subname"
    /\ Len(in_domain) > 0
    /\ ~endswith(in_domain, Dot)
    /\ endswith(in_name, Dot)
    /\ Len(rstrip_dots(in_name)) > 0
    /\ sub.err = "ConfigError"

(***************************************************************************)
(* Claims about run_failover (checked under SpecFailover)                  *)
(***************************************************************************)
\* The check URL answered with the expected status
Healthy(response) ==
    response.kind = "response" /\ response.status = cfg.expected_status

\* Both health-check branches of this run are behind it
Decided == primary_ok # "unset" /\ pc # "check_secondary"

\* The router CNAME content held by provider A, None if there is no record
ACurrent ==
    LET rs == {r \in cf : r.name = router_fqdn /\ r.type = "CNAME"}
    IN  IF rs = {} THEN None ELSE (CHOOSE r \in rs : TRUE).content

\* The router RRsets held by provider B
BCurrent ==
    {r.records : r \in {x \in desec : x.type = "CNAME"
                                      /\ x.subname = subname(cfg.domain, router_fqdn).value}}

\* C1: if the primary check returns expected_status the desired target is
\* the primary target's fqdn and the secondary is not consulted; if the
\* primary check fails and the secondary returns expected_status the desired
\* target is the secondary target's fqdn; every write of the run carries
\* that target (provider B with the trailing dot of an absolute name).
C1_DesiredTargetByPriority ==
    LET target == IF Healthy(health.primary)
                  THEN fqdn(cfg.domain, cfg.primary_target)
                  ELSE fqdn(cfg.domain, cfg.secondary_target)
    IN  /\ (Decided /\ Healthy(health.primary)) =>
               desired_target = target /\ secondary_ok = "unset"
        /\ (Decided /\ ~Healthy(health.primary) /\ Healthy(health.secondary)) =>
               desired_target = target /\ secondary_ok = "True"
        /\ \A i \in DOMAIN reqs :
               /\ Healthy(health.primary) \/ Healthy(health.secondary)
               /\ reqs[i].provider = "cf" => reqs[i].content = target
               /\ reqs[i].provider = "desec" =>
                      /\ Len(reqs[i].records) = 1
                      /\ rstrip_dots(reqs[i].records[1]) = target

\* the secondary took over: primary answered 503, and both providers were written
C1_Witness ==
    /\ pc = "done"
    /\ health.primary.kind = "response"
    /\ health.primary.status = 503
    /\ Healthy(health.secondary)
    /\ desired_target = fqdn(cfg.domain, cfg.secondary_target)
    /\ Len(reqs) = 2

\* C2: if both health checks fail (another status, or a transport failure,
\* which counts as unhealthy), no write is issued to either provider and the
\* run ends without an error.
C2_BothUnhealthyNoWrite ==
    (primary_ok # "unset" /\ ~Healthy(health.primary) /\ ~Healthy(health.secondary)) =>
        /\ reqs = <<>>
        /\ pc \in {"check_secondary", "done"}
        /\ pc = "done" => (err = "none" /\ exit_code = 0 /\ secondary_ok = "False")
        /\ desired_target = None

\* both checks failed in transport and the run is over
C2_Witness ==
    /\ pc = "done"
    /\ health.primary.kind = "RequestError"
    /\ health.secondary.kind = "RequestError"
    /\ primary_ok = "False"
    /\ secondary_ok = "False"
    /\ exit_code = 0

\* C3: if the current router target read from provider A equals the desired
\* target, the run issues no write; a run with the same health-check
\* outcomes as the successful run before it issues no write.
C3_NoWriteWhenCurrent ==
    /\ (desired_target # None /\ current = desired_target) => reqs = <<>>
    /\ pc = "set_router_target_cf" => ACurrent # desired_target
    /\ (Decided /\ desired_target # None /\ reqs = <<>> /\ ACurrent = desired_target) =>
           pc \in {"current_target_info", "done"}
    /\ (prev.done /\ prev.err = "none" /\ prev.health = health) => reqs = <<>>

\* the second of two runs with the same outcomes found the target in place
C3_Witness ==
    /\ pc = "done"
    /\ err = "none"
    /\ prev.done
    /\ prev.err = "none"
    /\ prev.health = health
    /\ desired_target # None
    /\ current = desired_target
    /\ reqs = <<>>

\* C4: with a healthy target and a current router content at provider A
\* that differs from the desired target (or no record), the router CNAME is
\* upserted to the desired target with TTL 60, in provider A first and then
\* in provider B, whose value carries exactly one trailing dot.
C4_UpsertBothProviders ==
    /\ \A i \in DOMAIN reqs :
           /\ reqs[i].ttl = 60
           /\ reqs[i].type = "CNAME"
           /\ reqs[i].provider = "cf" =>
                  (i = 1 /\ reqs[i].name = router_fqdn /\ reqs[i].content = desired_target)
           /\ reqs[i].provider = "desec" =>
                  /\ i = 2
                  /\ reqs[1].provider = "cf"
                  /\ reqs[1].ok
                  /\ reqs[i].records = <<desired_target \o Dot>>
                  /\ ~endswith(desired_target, Dot)
    /\ (pc = "done" /\ err = "none" /\ desired_target # None /\ current # desired_target) =>
           /\ Len(reqs) = 2
           /\ reqs[1].provider = "cf"
           /\ reqs[1].ok
           /\ reqs[2].provider = "desec"
           /\ reqs[2].ok
           /\ ACurrent = desired_target
           /\ BCurrent = {<<desired_target \o Dot>>}

\* primary unhealthy, secondary healthy, current "p.e": both providers
\* received "s.e"
C4_Witness ==
    /\ pc = "done"
    /\ err = "none"
    /\ ~Healthy(health.primary)
    /\ Healthy(health.secondary)
    /\ current = <<"p", ".", "e">>
    /\ Len(reqs) = 2
    /\ reqs[1].op = "update"
    /\ reqs[1].content = <<"s", ".", "e">>
    /\ reqs[2].records = <<<<"s", ".", "e", ".">>>>

\* C8: get_zone_id fails with a provider error if no zone or more than one
\* zone matches the name, and returns the zone's id only when the lookup is
\* unambiguous; after a failed lookup no record is read or written.
C8_ZoneLookupUnambiguous ==
    /\ (zone_resp.status = 200 /\ Len(zone_resp.zones) # 1) =>
           (pc = "done" /\ err = "ProviderError" /\ zone_id = "none")
    /\ zone_id # "none" => zone_resp.zones = <<zone_id>>
    /\ (pc = "done" /\ zone_id = "none") => (reqs = <<>> /\ reads = 0)

\* C9: every run that ends without error and in which a target was healthy
\* leaves the router CNAME of both providers pointing to the desired target,
\* also after runs in which provider B's upsert failed.
C9_ProvidersAgreeAfterRun ==
    (pc = "done" /\ err = "none" /\ desired_target # None) =>
        /\ ACurrent = desired_target
        /\ BCurrent = {<<desired_target \o Dot>>}

(***************************************************************************)
(* Claims about sync_zone (checked under SpecSync)                         *)
(***************************************************************************)
\* The request sync_zone issues to provider A for the record at position j
IsCfWriteOf(req, j) ==
    LET rec == zone_cfg.records[j]
    IN  /\ req.provider = "cf"
        /\ req.name = DnsRecordConfig_fqdn(rec.domain, rec.name)
        /\ req.type = rec.type
        /\ req.content = rec.values[1]
        /\ req.ttl = rec.ttl

\* The request sync_zone issues to provider B for the record at position j
IsDesecWriteOf(req, j) ==
    LET rec == zone_cfg.records[j]
    IN  /\ req.provider = "desec"
        /\ req.name = subname(rec.domain, rec.name).value
        /\ req.type = rec.type
        /\ req.records = rec.values
        /\ req.ttl = rec.ttl

\* C7: when the upsert of the record at position i fails, every record
\* before i has been upserted in both providers in config-file order,
\* record i stays applied in provider A if the failure is in provider B's
\* call, no request is issued for a record after i, and main returns 1.
C7_SyncHaltsOnFailure ==
    /\ \A k \in DOMAIN reqs :
           ~reqs[k].ok => (k = Len(reqs) /\ pc = "done" /\ err = "ProviderError")
    /\ (pc = "done" /\ err # "none" /\ idx >= 1) =>
           /\ exit_code = 1
           /\ \A j \in 1..(idx - 1) :
                  /\ IsCfWriteOf(reqs[2 * j - 1], j) /\ reqs[2 * j - 1].ok
                  /\ IsDesecWriteOf(reqs[2 * j], j) /\ reqs[2 * j].ok
           /\ Len(reqs) <= 2 * idx
           /\ Len(reqs) >= 2 * idx - 1 => IsCfWriteOf(reqs[2 * idx - 1], idx)
           /\ Len(reqs) = 2 * idx =>
                  LET rec == zone_cfg.records[idx]
                  IN  /\ IsDesecWriteOf(reqs[2 * idx], idx)
                      /\ reqs[2 * idx - 1].ok
                      /\ ~reqs[2 * idx].ok
                      /\ [name |-> DnsRecordConfig_fqdn(rec.domain, rec.name),
                          type |-> rec.type, content |-> rec.values[1],
                          ttl |-> rec.ttl] \in cf

\* provider B refused the second of three records
C7_Witness ==
    /\ pc = "done"
    /\ err = "ProviderError"
    /\ exit_code = 1
    /\ idx = 2
    /\ Len(zone_cfg.records) = 3
    /\ Len(reqs) = 4
    /\ reqs[3].ok
    /\ ~reqs[4].ok

\* C10: a record whose name does not belong to the domain raises its
\* configuration error before any write: no create or update is issued to
\* provider A (nor to provider B) for that record.
C10_ConfigErrorBeforeWrite ==
    (pc = "done" /\ err = "ConfigError" /\ idx >= 1) =>
        /\ Len(reqs) = 2 * (idx - 1)
        /\ \A k \in DOMAIN reqs :
               reqs[k].provider = "cf" =>
                   reqs[k].name # DnsRecordConfig_fqdn(zone_cfg.records[idx].domain,
                                                       zone_cfg.records[idx].name)

====
